---- MODULE Spec2Model ----
(***************************************************************************)
(* Conway's Game of Life with ageing cells (NguyenLe1605/conway).          *)
(* The model follows the final revision of life.cpp (src/unnamed/part_001, *)
(* lines 157-468): the rules engine, the stability detector and the two    *)
(* control loops of main.                                                  *)
(***************************************************************************)
EXTENDS Integers, FiniteSets, Sequences, TLC

(***************************************************************************)
(* Bounds of the model.                                                    *)
(***************************************************************************)
\* The maximum age of a cell (kMaxAge of life-constants.h, scaled down).
kMaxAge == 3
\* A grid given to the function harness holds at most MaxCells cells
\* (rows * columns).
MaxCells == 9
\* A grid read from a file in a session holds at most MaxFileCells cells.
MaxFileCells == 6
\* A grid whose cells take every combination of ages, as generateRandomGrid
\* makes them (with 40 to 60 rows and columns in the source), holds at most
\* MaxRandomCells cells.
MaxRandomCells == 4

VARIABLES
    pc,          \* position of main: which prompt or event wait it blocks on
    currGrid,    \* main's currGrid, the controller's grid
    line,        \* the last line read by getline
    ev,          \* the last event returned by waitForEvent
    canAdvance,  \* the value returned by the last call of advanceGrid
    timer,       \* runAnimation's GTimer
    display,     \* the LifeDisplay object
    fnCalled,    \* function harness: the function that has been applied
    fnGrid,      \* function harness: first argument
    fnOther,     \* function harness: second argument
    fnResult     \* function harness: the value returned

vars == <<pc, currGrid, line, ev, canAdvance, timer, display,
          fnCalled, fnGrid, fnOther, fnResult>>

(***************************************************************************)
(* Grid<int>: numRows, numCols and the cells in row-major order; the cell  *)
(* at (row, col), both counted from 0, is cells[row * numCols + col + 1].  *)
(***************************************************************************)
NewGrid(rows, cols) ==
    [numRows |-> rows, numCols |-> cols, cells |-> [i \in 1 .. rows * cols |-> 0]]

inBounds(grid, y, x) ==
    y >= 0 /\ x >= 0 /\ y < grid.numRows /\ x < grid.numCols

get(grid, row, col) == grid.cells[row * grid.numCols + col + 1]

Rows(grid) == 0 .. grid.numRows - 1

Cols(grid) == 0 .. grid.numCols - 1

\* The two nested loops over drow and dcol, flattened: iteration i visits
\* drow = i \div 3 - 1 and dcol = i % 3 - 1, in the order of the source.
RECURSIVE countNeighborLoop(_, _, _, _)
countNeighborLoop(grid, row, col, i) ==
    IF i >= 9 THEN 0
    ELSE LET drow == (i \div 3) - 1
             dcol == (i % 3) - 1
             y == row + drow
             x == col + dcol
             counted == /\ ~(drow = 0 /\ dcol = 0)
                        /\ inBounds(grid, y, x)
                        /\ get(grid, y, x) > 0
         IN  (IF counted THEN 1 ELSE 0) + countNeighborLoop(grid, row, col, i + 1)

\* Mutant: a position beyond an edge is taken from the opposite edge.
RECURSIVE countNeighborLoop_wrap(_, _, _, _)
countNeighborLoop_wrap(grid, row, col, i) ==
    IF i >= 9 THEN 0
    ELSE LET drow == (i \div 3) - 1
             dcol == (i % 3) - 1
             y == (row + drow + grid.numRows) % grid.numRows
             x == (col + dcol + grid.numCols) % grid.numCols
             counted == /\ ~(drow = 0 /\ dcol = 0)
                        /\ get(grid, y, x) > 0
         IN  (IF counted THEN 1 ELSE 0) + countNeighborLoop_wrap(grid, row, col, i + 1)

countNeighborCell_wrap(grid, row, col) == countNeighborLoop_wrap(grid, row, col, 0)

\* Mutant: only the four neighbours that share a side are counted.
RECURSIVE countNeighborLoop_orthogonal(_, _, _, _)
countNeighborLoop_orthogonal(grid, row, col, i) ==
    IF i >= 9 THEN 0
    ELSE LET drow == (i \div 3) - 1
             dcol == (i % 3) - 1
             y == row + drow
             x == col + dcol
             counted == /\ (drow = 0) # (dcol = 0)
                        /\ inBounds(grid, y, x)
                        /\ get(grid, y, x) > 0
         IN  (IF counted THEN 1 ELSE 0)
                 + countNeighborLoop_orthogonal(grid, row, col, i + 1)

countNeighborCell_orthogonal(grid, row, col) ==
    countNeighborLoop_orthogonal(grid, row, col, 0)

countNeighborCell(grid, row, col) == countNeighborLoop(grid, row, col, 0)

\* Mutant: the clone is allocated with the two dimensions exchanged.
cloneGrid_transposed(grid) ==
    [numRows |-> grid.numCols, numCols |-> grid.numRows,
     cells |-> [i \in 1 .. grid.numRows * grid.numCols |-> grid.cells[i]]]

cloneGrid(grid) ==
    [numRows |-> grid.numRows, numCols |-> grid.numCols,
     cells |-> [i \in 1 .. grid.numRows * grid.numCols |-> grid.cells[i]]]

\* Mutant: overcrowding starts at 5 neighbours instead of 4.
nextCell_crowdAt5(grid, newGrid, row, col) ==
    LET numNeighborCell == countNeighborCell(grid, row, col)
    IN  IF numNeighborCell <= 1 \/ numNeighborCell > 4
        THEN 0
        ELSE IF numNeighborCell = 2
        THEN IF get(grid, row, col) > 0 /\ get(grid, row, col) < kMaxAge
             THEN get(newGrid, row, col) + 1
             ELSE get(newGrid, row, col)
        ELSE IF get(grid, row, col) < kMaxAge
             THEN get(newGrid, row, col) + 1
             ELSE get(newGrid, row, col)

\* Mutant: with 2 neighbours the cell is aged without the test that it is alive.
nextCell_birthAt2(grid, newGrid, row, col) ==
    LET numNeighborCell == countNeighborCell(grid, row, col)
    IN  IF numNeighborCell <= 1 \/ numNeighborCell > 3
        THEN 0
        ELSE IF numNeighborCell = 2
        THEN IF get(grid, row, col) < kMaxAge
             THEN get(newGrid, row, col) + 1
             ELSE get(newGrid, row, col)
        ELSE IF get(grid, row, col) < kMaxAge
             THEN get(newGrid, row, col) + 1
             ELSE get(newGrid, row, col)

\* Mutant: with 3 neighbours the age is incremented without the cap.
nextCell_noCapAt3(grid, newGrid, row, col) ==
    LET numNeighborCell == countNeighborCell(grid, row, col)
    IN  IF numNeighborCell <= 1 \/ numNeighborCell > 3
        THEN 0
        ELSE IF numNeighborCell = 2
        THEN IF get(grid, row, col) > 0 /\ get(grid, row, col) < kMaxAge
             THEN get(newGrid, row, col) + 1
             ELSE get(newGrid, row, col)
        ELSE get(newGrid, row, col) + 1

\* Mutant: with 2 neighbours a live cell is aged without the cap.
nextCell_noCapAt2(grid, newGrid, row, col) ==
    LET numNeighborCell == countNeighborCell(grid, row, col)
    IN  IF numNeighborCell <= 1 \/ numNeighborCell > 3
        THEN 0
        ELSE IF numNeighborCell = 2
        THEN IF get(grid, row, col) > 0
             THEN get(newGrid, row, col) + 1
             ELSE get(newGrid, row, col)
        ELSE IF get(grid, row, col) < kMaxAge
             THEN get(newGrid, row, col) + 1
             ELSE get(newGrid, row, col)

\* Mutant: a cell dies of loneliness with exactly 1 neighbour only.
nextCell_dieAt1Only(grid, newGrid, row, col) ==
    LET numNeighborCell == countNeighborCell(grid, row, col)
    IN  IF numNeighborCell = 1 \/ numNeighborCell > 3
        THEN 0
        ELSE IF numNeighborCell = 2
        THEN IF get(grid, row, col) > 0 /\ get(grid, row, col) < kMaxAge
             THEN get(newGrid, row, col) + 1
             ELSE get(newGrid, row, col)
        ELSE IF get(grid, row, col) < kMaxAge
             THEN get(newGrid, row, col) + 1
             ELSE get(newGrid, row, col)

\* Mutant: with 3 neighbours a dead cell is born, and a live cell keeps its
\* age.
nextCell_birthOnlyAt3(grid, newGrid, row, col) ==
    LET numNeighborCell == countNeighborCell(grid, row, col)
    IN  IF numNeighborCell <= 1 \/ numNeighborCell > 3
        THEN 0
        ELSE IF numNeighborCell = 2
        THEN IF get(grid, row, col) > 0 /\ get(grid, row, col) < kMaxAge
             THEN get(newGrid, row, col) + 1
             ELSE get(newGrid, row, col)
        ELSE IF get(grid, row, col) = 0
             THEN get(newGrid, row, col) + 1
             ELSE get(newGrid, row, col)

\* Mutant: ageing stops one short of kMaxAge.
nextCell_capBelow(grid, newGrid, row, col) ==
    LET numNeighborCell == countNeighborCell(grid, row, col)
    IN  IF numNeighborCell <= 1 \/ numNeighborCell > 3
        THEN 0
        ELSE IF numNeighborCell = 2
        THEN IF get(grid, row, col) > 0 /\ get(grid, row, col) < kMaxAge - 1
             THEN get(newGrid, row, col) + 1
             ELSE get(newGrid, row, col)
        ELSE IF get(grid, row, col) < kMaxAge - 1
             THEN get(newGrid, row, col) + 1
             ELSE get(newGrid, row, col)

nextCell(grid, newGrid, row, col) ==
    LET numNeighborCell == countNeighborCell(grid, row, col)
    IN  IF numNeighborCell <= 1 \/ numNeighborCell > 3
        THEN 0
        ELSE IF numNeighborCell = 2
        THEN IF get(grid, row, col) > 0 /\ get(grid, row, col) < kMaxAge
             THEN get(newGrid, row, col) + 1
             ELSE get(newGrid, row, col)
        ELSE IF get(grid, row, col) < kMaxAge
             THEN get(newGrid, row, col) + 1
             ELSE get(newGrid, row, col)

generateNextGenerationGrid(grid) ==
    LET newGrid == cloneGrid(grid)
    IN  [newGrid EXCEPT !.cells =
            [i \in 1 .. grid.numRows * grid.numCols |->
                nextCell(grid, newGrid, (i - 1) \div grid.numCols,
                                        (i - 1) % grid.numCols)]]

\* The loop of generateNextGenerationGrid as the source runs it, one cell after
\* the other: st.grid is the parameter grid, st.newGrid the clone written to,
\* order the cell indices in the order they are visited, k the next to visit.
\* Mutant: newGrid is the grid itself, so every write lands in the grid the
\* neighbour counts are read from.
RECURSIVE generateLoop_inPlace(_, _, _)
generateLoop_inPlace(st, order, k) ==
    IF k > Len(order) THEN st
    ELSE LET i == order[k]
             row == (i - 1) \div st.grid.numCols
             col == (i - 1) % st.grid.numCols
             written == [st.grid EXCEPT
                            !.cells[i] = nextCell(st.grid, st.grid, row, col)]
         IN  generateLoop_inPlace([grid |-> written, newGrid |-> written],
                                  order, k + 1)

RECURSIVE generateLoop(_, _, _)
generateLoop(st, order, k) ==
    IF k > Len(order) THEN st
    ELSE LET i == order[k]
             row == (i - 1) \div st.grid.numCols
             col == (i - 1) % st.grid.numCols
             written == [st.newGrid EXCEPT
                            !.cells[i] = nextCell(st.grid, st.newGrid, row, col)]
         IN  generateLoop([grid |-> st.grid, newGrid |-> written], order, k + 1)

\* The order of the source: rows from 0, and in each row the columns from 0.
RowMajor(grid) == [k \in 1 .. grid.numRows * grid.numCols |-> k]

\* The opposite order, last cell first.
Backward(grid) ==
    [k \in 1 .. grid.numRows * grid.numCols |-> grid.numRows * grid.numCols + 1 - k]

generateInOrder(grid, order) ==
    generateLoop([grid |-> grid, newGrid |-> cloneGrid(grid)], order, 1)

\* Mutant: the comparison of the two grids is left out.
isStableGrid_agesOnly(curr, newGrid) ==
    \A i \in DOMAIN newGrid.cells :
        ~(newGrid.cells[i] > 0 /\ newGrid.cells[i] < kMaxAge)

\* Mutant: the two grids are compared by their dimensions only.
isStableGrid_sameSize(curr, newGrid) ==
    /\ \A i \in DOMAIN newGrid.cells :
           ~(newGrid.cells[i] > 0 /\ newGrid.cells[i] < kMaxAge)
    /\ curr.numRows = newGrid.numRows
    /\ curr.numCols = newGrid.numCols

\* Mutant: the age test leaves out "cell > 0", so a dead cell counts as a
\* cell that is still ageing.
isStableGrid_deadUnstable(curr, newGrid) ==
    /\ \A i \in DOMAIN newGrid.cells : ~(newGrid.cells[i] < kMaxAge)
    /\ curr = newGrid

\* Mutant of the earlier revision: the comparison of the two grids is left out.
isStableGridLifeCpp_agesOnly(curr, newGrid) ==
    \A i \in DOMAIN curr.cells : ~(curr.cells[i] > 0 /\ curr.cells[i] < kMaxAge)

\* isStableGrid of the earlier revision (life.cpp): the ages tested are those
\* of currGrid, the grid before the step.
isStableGridLifeCpp(curr, newGrid) ==
    /\ \A i \in DOMAIN curr.cells : ~(curr.cells[i] > 0 /\ curr.cells[i] < kMaxAge)
    /\ curr = newGrid

isStableGrid(curr, newGrid) ==
    /\ \A i \in DOMAIN newGrid.cells :
           ~(newGrid.cells[i] > 0 /\ newGrid.cells[i] < kMaxAge)
    /\ curr = newGrid

(***************************************************************************)
(* LifeDisplay (life-graphics.h).  numRows and numColumns are the          *)
(* dimensions declared by setDimensions, ages the ages drawn so far, board *)
(* the last textual dump, window the ages visible since the last repaint,  *)
(* and failed records that drawCellAt was given a location out of bounds.  *)
(***************************************************************************)
NewDisplay ==
    [numRows |-> 0, numColumns |-> 0, ages |-> <<>>, board |-> <<>>,
     window |-> <<>>, failed |-> FALSE]

setDimensions(disp, rows, cols) ==
    [disp EXCEPT !.numRows = rows, !.numColumns = cols,
                 !.ages = [i \in 1 .. rows * cols |-> 0],
                 !.window = [i \in 1 .. rows * cols |-> 0]]

coordinateInRange(disp, row, column) ==
    row >= 0 /\ column >= 0 /\ row < disp.numRows /\ column < disp.numColumns

drawCellAt(disp, row, column, age) ==
    IF disp.failed THEN disp
    ELSE IF ~coordinateInRange(disp, row, column)
    THEN [disp EXCEPT !.failed = TRUE]
    ELSE [disp EXCEPT !.ages[row * disp.numColumns + column + 1] = age]

printBoard(disp) == IF disp.failed THEN disp ELSE [disp EXCEPT !.board = disp.ages]

repaint(disp) == IF disp.failed THEN disp ELSE [disp EXCEPT !.window = disp.ages]

\* The row and column loops of drawGrid from cell index i (row-major) on.
\* (The display drawn so far is bound to d, and in advanceGrid the grid
\* generated to newGrid, so that each is evaluated once.)
RECURSIVE drawGridLoop(_, _, _)
drawGridLoop(disp, grid, i) ==
    IF i > grid.numRows * grid.numCols THEN disp
    ELSE LET row == (i - 1) \div grid.numCols
             col == (i - 1) % grid.numCols
         IN  CHOOSE drawn \in
                 {drawGridLoop(drawCellAt(d, row, col, get(grid, row, col)), grid, i + 1) :
                      d \in {disp}} : TRUE

\* Mutant: the dump and the repaint come before the cells are drawn.
drawGrid_flushFirst(disp, grid) == drawGridLoop(repaint(printBoard(disp)), grid, 1)

drawGrid(disp, grid) == repaint(printBoard(drawGridLoop(disp, grid, 1)))

(***************************************************************************)
(* advanceGrid: the new grid, the display after drawGrid and the value     *)
(* returned.                                                               *)
(***************************************************************************)
\* Mutant: the stability check runs after grid has been overwritten.
advanceGrid_checkAfterAssign(disp, grid) ==
    LET newGrid == generateNextGenerationGrid(grid)
        advancing == ~isStableGrid(newGrid, newGrid)
    IN  [grid |-> newGrid, disp |-> drawGrid(disp, newGrid), canAdvance |-> advancing]

advanceGrid(disp, grid) ==
    CHOOSE r \in
        {[grid |-> newGrid, disp |-> drawGrid(disp, newGrid),
          canAdvance |-> ~isStableGrid(grid, newGrid)] :
             newGrid \in {generateNextGenerationGrid(grid)}} : TRUE

\* Mutant: the grid is emptied, not zeroed: it is left with no rows and no
\* columns.
clearScreen_empties(disp, grid) ==
    LET cleared == NewGrid(0, 0)
    IN  [grid |-> cleared, disp |-> drawGrid(disp, cleared)]

clearScreen(disp, grid) ==
    LET cleared == [grid EXCEPT !.cells = [i \in DOMAIN grid.cells |-> 0]]
    IN  [grid |-> cleared, disp |-> drawGrid(disp, cleared)]

(***************************************************************************)
(* Inputs.                                                                 *)
(***************************************************************************)
Shapes == {s \in (1 .. MaxCells) \X (1 .. MaxCells) : s[1] * s[2] <= MaxCells}

FileShapes ==
    {s \in (1 .. MaxFileCells) \X (1 .. MaxFileCells) : s[1] * s[2] <= MaxFileCells}

RandomShapes ==
    {s \in (1 .. MaxRandomCells) \X (1 .. MaxRandomCells) :
        s[1] * s[2] <= MaxRandomCells}

MakeGrid(s, f) == [numRows |-> s[1], numCols |-> s[2], cells |-> f]

\* enum CellState
Empty == 0

Occupied == 1

\* The lines typed at the prompts; "x" stands for any other text.
Lines == {"", "quit", "manual", "1", "2", "3", "x"}

\* The non-empty lines typed at the file name prompt.
FileNames == {"x"}

\* The lines typed at the mode prompt.
ModeLines == {"manual", "", "x"}

\* The lines typed at the speed prompt.
SpeedLines == {"1", "2", "3", "", "x"}

\* The lines typed at the manual step prompt and at the post-session prompt.
StepLines == {"", "quit", "x", "manual"}

\* The mouse events waitForEvent(TIMER_EVENT + MOUSE_EVENT) can return.
MouseEvents == {"MOUSE_PRESSED", "MOUSE_MOVED"}

NoGrid == NewGrid(0, 0)

NoTimer == [ms |-> 0, running |-> FALSE]

(***************************************************************************)
(* main.                                                                   *)
(***************************************************************************)
HarnessIdle ==
    /\ fnCalled = "none"
    /\ fnGrid = NoGrid
    /\ fnOther = NoGrid
    /\ fnResult = NoGrid

HarnessUnchanged == UNCHANGED <<fnCalled, fnGrid, fnOther, fnResult>>

Init ==
    /\ pc = "welcome"
    /\ currGrid = NoGrid
    /\ line = ""
    /\ ev = "NONE"
    /\ canAdvance = TRUE
    /\ timer = NoTimer
    /\ display = NewDisplay
    /\ HarnessIdle

\* welcome: getLine("Hit [enter] to continue....") takes any line; main then
\* blocks in getFileNameFromUser.
Welcome ==
    /\ pc = "welcome"
    /\ line' \in Lines
    /\ pc' = "fileName"
    /\ UNCHANGED <<currGrid, ev, canAdvance, timer, display>>
    /\ HarnessUnchanged

\* Mutant: the dimensions are declared for the first grid only.
initializeGridAndDisplay_setOnce(grid) ==
    /\ currGrid' = grid
    /\ display' = drawGrid(IF display.numRows = 0 /\ display.numColumns = 0
                           THEN setDimensions(display, grid.numRows, grid.numCols)
                           ELSE display,
                           grid)
    /\ pc' = "mode"

initializeGridAndDisplay(grid) ==
    /\ currGrid' = grid
    /\ display' = drawGrid(setDimensions(display, grid.numRows, grid.numCols), grid)
    /\ pc' = "mode"

InitializeRandom ==
    /\ pc = "fileName"
    /\ line' = ""
    /\ \E s \in RandomShapes :
         \E f \in [1 .. s[1] * s[2] -> {Empty} \cup (1 .. kMaxAge)] :
            initializeGridAndDisplay(MakeGrid(s, f))
    /\ UNCHANGED <<ev, canAdvance, timer>>
    /\ HarnessUnchanged

InitializeFromFile ==
    /\ pc = "fileName"
    /\ line' \in FileNames
    /\ \E s \in FileShapes :
         \E f \in [1 .. s[1] * s[2] -> {Empty, Occupied}] :
            initializeGridAndDisplay(MakeGrid(s, f))
    /\ UNCHANGED <<ev, canAdvance, timer>>
    /\ HarnessUnchanged

FileOpenFails ==
    /\ pc = "fileName"
    /\ line' \in FileNames
    /\ pc' = "exited"
    /\ UNCHANGED <<currGrid, ev, canAdvance, timer, display>>
    /\ HarnessUnchanged

ChooseManual ==
    /\ pc = "mode"
    /\ line' = "manual"
    /\ pc' = "manual"
    /\ UNCHANGED <<currGrid, ev, canAdvance, timer, display>>
    /\ HarnessUnchanged

ChooseAutomatic ==
    /\ pc = "mode"
    /\ line' \in ModeLines \ {"manual"}
    /\ pc' = "speed"
    /\ UNCHANGED <<currGrid, ev, canAdvance, timer, display>>
    /\ HarnessUnchanged

speedOf(l) == IF l = "1" THEN 1000 ELSE IF l = "2" THEN 500 ELSE 100

ChooseSpeed ==
    /\ pc = "speed"
    /\ line' \in SpeedLines \cap {"1", "2", "3"}
    /\ timer' = [ms |-> speedOf(line'), running |-> TRUE]
    /\ pc' = "timed"
    /\ UNCHANGED <<currGrid, ev, canAdvance, display>>
    /\ HarnessUnchanged

InvalidSpeed ==
    /\ pc = "speed"
    /\ line' \in SpeedLines \ {"1", "2", "3"}
    /\ pc' = "exited"
    /\ UNCHANGED <<currGrid, ev, canAdvance, timer, display>>
    /\ HarnessUnchanged

\* Mutant: the value advanceGrid returns is ignored and the loop goes on.
TimerEvent_ignoresResult ==
    /\ pc = "timed"
    /\ timer.running
    /\ ev' = "TIMER"
    /\ LET r == advanceGrid(display, currGrid)
       IN  /\ currGrid' = r.grid
           /\ display' = r.disp
           /\ canAdvance' = r.canAdvance
    /\ pc' = "timed"
    /\ UNCHANGED <<line, timer>>
    /\ HarnessUnchanged

\* runAnimation, one turn of the loop on a TIMER_EVENT.
TimerEvent ==
    /\ pc = "timed"
    /\ timer.running
    /\ ev' = "TIMER"
    /\ LET r == advanceGrid(display, currGrid)
       IN  /\ currGrid' = r.grid
           /\ display' = r.disp
           /\ canAdvance' = r.canAdvance
           /\ pc' = IF r.canAdvance THEN "timed" ELSE "stopped"
           /\ timer' = IF r.canAdvance THEN timer ELSE NoTimer
    /\ UNCHANGED line
    /\ HarnessUnchanged

\* Mutant: a mouse press is only noted and the loop waits for the next event.
MouseEvent_keepsWaiting ==
    /\ pc = "timed"
    /\ ev' \in MouseEvents
    /\ UNCHANGED <<pc, timer, currGrid, line, canAdvance, display>>
    /\ HarnessUnchanged

\* runAnimation, one turn of the loop on a mouse event.
MouseEvent ==
    /\ pc = "timed"
    /\ ev' \in MouseEvents
    /\ pc' = IF ev' = "MOUSE_PRESSED" THEN "stopped" ELSE "timed"
    /\ timer' = IF ev' = "MOUSE_PRESSED" THEN NoTimer ELSE timer
    /\ UNCHANGED <<currGrid, line, canAdvance, display>>
    /\ HarnessUnchanged

\* runManualAnimation, one turn of the loop.
ManualEnter ==
    /\ pc = "manual"
    /\ line' = ""
    /\ LET r == advanceGrid(display, currGrid)
       IN  /\ currGrid' = r.grid
           /\ display' = r.disp
           /\ canAdvance' = r.canAdvance
           /\ pc' = IF r.canAdvance THEN "manual" ELSE "stopped"
    /\ UNCHANGED <<ev, timer>>
    /\ HarnessUnchanged

\* Mutant: advanceGrid is called before the line is looked at.
ManualQuit_advances ==
    /\ pc = "manual"
    /\ line' = "quit"
    /\ LET r == advanceGrid(display, currGrid)
       IN  /\ currGrid' = r.grid
           /\ display' = r.disp
           /\ canAdvance' = r.canAdvance
    /\ pc' = "stopped"
    /\ UNCHANGED <<ev, timer>>
    /\ HarnessUnchanged

ManualQuit ==
    /\ pc = "manual"
    /\ line' = "quit"
    /\ pc' = "stopped"
    /\ UNCHANGED <<currGrid, ev, canAdvance, timer, display>>
    /\ HarnessUnchanged

\* Mutant: an unknown line is reported and the prompt is shown again.
ManualInvalid_reprompts ==
    /\ pc = "manual"
    /\ line' \in StepLines \ {"", "quit"}
    /\ pc' = "manual"
    /\ UNCHANGED <<currGrid, ev, canAdvance, timer, display>>
    /\ HarnessUnchanged

ManualInvalid ==
    /\ pc = "manual"
    /\ line' \in StepLines \ {"", "quit"}
    /\ pc' = "exited"
    /\ UNCHANGED <<currGrid, ev, canAdvance, timer, display>>
    /\ HarnessUnchanged

\* main after the run has returned: clearScreen, then the prompt.  The
\* locals of the run (ev, the value advanceGrid returned) are gone.
ClearScreen ==
    /\ pc = "stopped"
    /\ LET r == clearScreen(display, currGrid)
       IN  /\ currGrid' = r.grid
           /\ display' = r.disp
    /\ pc' = "post"
    /\ ev' = "NONE"
    /\ canAdvance' = TRUE
    /\ UNCHANGED <<line, timer>>
    /\ HarnessUnchanged

\* Mutant: an empty line goes back to the mode prompt with the cleared grid,
\* and no grid is loaded.
PostEnter_resumes ==
    /\ pc = "post"
    /\ line' = ""
    /\ pc' = "mode"
    /\ UNCHANGED <<currGrid, ev, canAdvance, timer, display>>
    /\ HarnessUnchanged

PostEnter ==
    /\ pc = "post"
    /\ line' = ""
    /\ pc' = "fileName"
    /\ UNCHANGED <<currGrid, ev, canAdvance, timer, display>>
    /\ HarnessUnchanged

PostQuit ==
    /\ pc = "post"
    /\ line' = "quit"
    /\ pc' = "exited"
    /\ UNCHANGED <<currGrid, ev, canAdvance, timer, display>>
    /\ HarnessUnchanged

PostInvalid ==
    /\ pc = "post"
    /\ line' \in StepLines \ {"", "quit"}
    /\ pc' = "exited"
    /\ UNCHANGED <<currGrid, ev, canAdvance, timer, display>>
    /\ HarnessUnchanged

Next ==
    \/ Welcome
    \/ InitializeRandom
    \/ InitializeFromFile
    \/ FileOpenFails
    \/ ChooseManual
    \/ ChooseAutomatic
    \/ ChooseSpeed
    \/ InvalidSpeed
    \/ TimerEvent
    \/ MouseEvent
    \/ ManualEnter
    \/ ManualQuit
    \/ ManualInvalid
    \/ ClearScreen
    \/ PostEnter
    \/ PostQuit
    \/ PostInvalid

Spec == Init /\ [][Next]_vars

(***************************************************************************)
(* Function harness: one grid is drawn, then one function is applied to    *)
(* it.  The grids drawn are every grid of at most MaxRandomCells cells,    *)
(* and every grid of at most MaxCells cells whose live cells share one age.*)
(***************************************************************************)
MainIdle ==
    /\ pc = "harness"
    /\ currGrid = NoGrid
    /\ line = ""
    /\ ev = "NONE"
    /\ canAdvance = TRUE
    /\ timer = NoTimer
    /\ display = NewDisplay

MainUnchanged == UNCHANGED <<pc, currGrid, line, ev, canAdvance, timer, display>>

FnInit ==
    /\ MainIdle
    /\ fnCalled = "none"
    /\ \/ \E s \in RandomShapes :
            \E f \in [1 .. s[1] * s[2] -> 0 .. kMaxAge] :
              fnGrid = MakeGrid(s, f)
       \/ \E s \in Shapes :
            \E f \in [1 .. s[1] * s[2] -> {Empty, Occupied}] :
              \E a \in 1 .. kMaxAge :
                fnGrid = MakeGrid(s, [i \in 1 .. s[1] * s[2] |-> f[i] * a])
    /\ fnOther = NoGrid
    /\ fnResult = NoGrid

CallGenerate ==
    /\ fnCalled = "none"
    /\ fnCalled' = "generateNextGenerationGrid"
    /\ fnResult' = generateNextGenerationGrid(fnGrid)
    /\ UNCHANGED <<fnGrid, fnOther>>
    /\ MainUnchanged

\* countNeighborCell applied to every cell: the counts, laid out as a grid.
CallCount ==
    /\ fnCalled = "none"
    /\ fnCalled' = "countNeighborCell"
    /\ fnResult' = MakeGrid(<<fnGrid.numRows, fnGrid.numCols>>,
                            [i \in 1 .. fnGrid.numRows * fnGrid.numCols |->
                                countNeighborCell(fnGrid,
                                                  (i - 1) \div fnGrid.numCols,
                                                  (i - 1) % fnGrid.numCols)])
    /\ UNCHANGED <<fnGrid, fnOther>>
    /\ MainUnchanged

\* The loop of generateNextGenerationGrid run cell by cell, in the order of
\* the source and in the opposite order; each run gives the parameter grid as
\* the loop left it and the grid returned.
CallGenerateLoop ==
    /\ fnCalled = "none"
    /\ fnCalled' = "generateLoop"
    /\ fnResult' = [forward |-> generateInOrder(fnGrid, RowMajor(fnGrid)),
                    backward |-> generateInOrder(fnGrid, Backward(fnGrid))]
    /\ UNCHANGED <<fnGrid, fnOther>>
    /\ MainUnchanged

FnNext ==
    \/ CallGenerate
    \/ CallCount
    \/ CallGenerateLoop

FnSpec == FnInit /\ [][FnNext]_vars

(***************************************************************************)
(* Pair harness: isStableGrid applied to two grids of one shape, of at     *)
(* most MaxRandomCells cells and with every combination of ages in the     *)
(* first; the second is the first, or the first with one cell k set to b.  *)
(***************************************************************************)
PairInit ==
    /\ MainIdle
    /\ fnCalled = "none"
    /\ \E s \in RandomShapes :
         \E f \in [1 .. s[1] * s[2] -> 0 .. kMaxAge] :
           \E k \in 0 .. s[1] * s[2] :
             \E b \in 0 .. kMaxAge :
               /\ k = 0 => b = 0
               /\ fnGrid = MakeGrid(s, f)
               /\ fnOther = MakeGrid(s, [i \in 1 .. s[1] * s[2] |->
                                           IF i = k THEN b ELSE f[i]])
    /\ fnResult = FALSE

CallStable ==
    /\ fnCalled = "none"
    /\ fnCalled' = "isStableGrid"
    /\ fnResult' = isStableGrid(fnGrid, fnOther)
    /\ UNCHANGED <<fnGrid, fnOther>>
    /\ MainUnchanged

\* The isStableGrid of both revisions applied to the same two grids.
CallStableRevisions ==
    /\ fnCalled = "none"
    /\ fnCalled' = "isStableGrid revisions"
    /\ fnResult' = [lifeCpp |-> isStableGridLifeCpp(fnGrid, fnOther),
                    final |-> isStableGrid(fnGrid, fnOther)]
    /\ UNCHANGED <<fnGrid, fnOther>>
    /\ MainUnchanged

PairNext ==
    \/ CallStable
    \/ CallStableRevisions

PairSpec == PairInit /\ [][PairNext]_vars

(***************************************************************************)
(* The engine stepped from a grid, as advanceGrid steps it: the next grid  *)
(* is generated, isStableGrid compares the two, and the next grid becomes  *)
(* the current one.  fnOther is the grid the run started from, fnGrid the  *)
(* current grid; fnResult holds the number of steps taken (MaxSteps stands *)
(* for MaxSteps or more), the report of the last step and the report of    *)
(* the step before it.  The runs start from every grid of at most         *)
(* MaxRandomCells cells, and from every grid of at most MaxCells cells     *)
(* whose live cells all have age 1 or all have age kMaxAge.                *)
(***************************************************************************)
MaxSteps == 3

StepInit ==
    /\ MainIdle
    /\ fnCalled = "none"
    /\ \/ \E s \in RandomShapes :
            \E f \in [1 .. s[1] * s[2] -> 0 .. kMaxAge] :
              fnOther = MakeGrid(s, f)
       \/ \E s \in Shapes :
            \E f \in [1 .. s[1] * s[2] -> {Empty, Occupied}] :
              \E a \in {1, kMaxAge} :
                fnOther = MakeGrid(s, [i \in 1 .. s[1] * s[2] |-> f[i] * a])
    /\ fnGrid = fnOther
    /\ fnResult = [steps |-> 0, terminal |-> FALSE, wasTerminal |-> FALSE]

CallStep ==
    /\ LET newGrid == generateNextGenerationGrid(fnGrid)
       IN  /\ fnResult' =
                 [steps |-> IF fnResult.steps < MaxSteps
                            THEN fnResult.steps + 1 ELSE MaxSteps,
                  terminal |-> isStableGrid(fnGrid, newGrid),
                  wasTerminal |-> fnResult.terminal]
           /\ fnGrid' = newGrid
    /\ fnCalled' = "advanceGrid"
    /\ UNCHANGED fnOther
    /\ MainUnchanged

StepNext == CallStep

StepSpec == StepInit /\ [][StepNext]_vars

(***************************************************************************)
(* runAnimation on its own, from the moment the timer is started, with the *)
(* timer events counted and no mouse press.  fnOther is the grid the run   *)
(* started with and fnResult the number of timer events handled; counting  *)
(* stops at kMaxAge + 1.  The runs start from every grid of at most        *)
(* MaxRandomCells cells with cells dead, of age 1 or of age kMaxAge, and   *)
(* from every grid of at most MaxCells cells whose pattern is a still life *)
(* and whose live cells share one age.                                     *)
(***************************************************************************)
\* The pattern stays as it is: every live cell has 2 or 3 live neighbours and
\* no dead cell has 3.
StillLife(grid) ==
    \A i \in DOMAIN grid.cells :
        LET n == countNeighborCell(grid, (i - 1) \div grid.numCols,
                                         (i - 1) % grid.numCols)
        IN  IF grid.cells[i] > 0 THEN n \in {2, 3} ELSE n # 3

TimedInit ==
    /\ pc = "fileName"
    /\ currGrid = NoGrid
    /\ line = ""
    /\ ev = "NONE"
    /\ canAdvance = TRUE
    /\ timer = NoTimer
    /\ display = NewDisplay
    /\ fnCalled = "none"
    /\ fnGrid = NoGrid
    /\ fnOther = NoGrid
    /\ fnResult = 0

\* main up to the call of runAnimation and the start of its timer: the grid
\* is set and drawn and the speed "3" is chosen (the loop never reads the
\* interval).
TimedEnter ==
    /\ pc = "fileName"
    /\ \/ \E s \in RandomShapes :
            \E f \in [1 .. s[1] * s[2] -> {Empty, Occupied, kMaxAge}] :
              currGrid' = MakeGrid(s, f)
       \/ \E s \in Shapes :
            \E f \in [1 .. s[1] * s[2] -> {Empty, Occupied}] :
              /\ StillLife(MakeGrid(s, f))
              /\ \E a \in 1 .. kMaxAge :
                    currGrid' = MakeGrid(s, [i \in 1 .. s[1] * s[2] |-> f[i] * a])
    /\ display' = drawGrid(setDimensions(display, currGrid'.numRows,
                                         currGrid'.numCols), currGrid')
    /\ line' = "3"
    /\ timer' = [ms |-> speedOf(line'), running |-> TRUE]
    /\ pc' = "timed"
    /\ fnCalled' = "runAnimation"
    /\ fnOther' = currGrid'
    /\ UNCHANGED <<ev, canAdvance, fnGrid, fnResult>>

\* runAnimation, one turn of the loop on a timer event, counted.
TimedTimerEvent ==
    /\ pc = "timed"
    /\ timer.running
    /\ ev' = "TIMER"
    /\ \E r \in {advanceGrid(display, currGrid)} :
           /\ currGrid' = r.grid
           /\ display' = r.disp
           /\ canAdvance' = r.canAdvance
           /\ pc' = IF r.canAdvance THEN "timed" ELSE "stopped"
           /\ timer' = IF r.canAdvance THEN timer ELSE NoTimer
    /\ fnResult' = IF fnResult <= kMaxAge THEN fnResult + 1 ELSE fnResult
    /\ UNCHANGED <<line, fnCalled, fnGrid, fnOther>>

\* runAnimation, one turn of the loop on a mouse event that is not a press.
TimedMouseMoved ==
    /\ pc = "timed"
    /\ ev' = "MOUSE_MOVED"
    /\ UNCHANGED <<pc, timer, currGrid, line, canAdvance, display>>
    /\ HarnessUnchanged

TimedNext ==
    \/ TimedEnter
    \/ TimedTimerEvent
    \/ TimedMouseMoved

\* The timer that runAnimation starts keeps firing, and waitForEvent hands
\* its events to the loop.
TimedSpec == TimedInit /\ [][TimedNext]_vars /\ WF_vars(TimedTimerEvent)

(***************************************************************************)
(* The rules in the words of the specification: the live cells among the   *)
(* in-bounds Moore neighbours of (r, c).                                   *)
(***************************************************************************)
Cells(grid) == Rows(grid) \X Cols(grid)

AllDead(grid) == \A i \in DOMAIN grid.cells : grid.cells[i] = 0

SomeAlive(grid) == \E i \in DOMAIN grid.cells : grid.cells[i] > 0

MooreNeighbours(grid, r, c) ==
    {q \in Cells(grid) : /\ q # <<r, c>>
                         /\ q[1] - r \in -1 .. 1
                         /\ q[2] - c \in -1 .. 1}

LiveNeighbours(grid, r, c) ==
    Cardinality({q \in MooreNeighbours(grid, r, c) : get(grid, q[1], q[2]) > 0})

Generated == fnCalled = "generateNextGenerationGrid"

\* C1: a cell with 0, 1 or at least 4 live in-bounds Moore neighbours has age
\* exactly 0 in the grid generateNextGenerationGrid returns, whatever its age was.
C1_DeathResetsAge ==
    Generated =>
        \A q \in Cells(fnGrid) :
            LET n == LiveNeighbours(fnGrid, q[1], q[2])
            IN  (n <= 1 \/ n >= 4) => get(fnResult, q[1], q[2]) = 0

C1_Witness ==
    /\ Generated
    /\ \E q \in Cells(fnGrid) :
          /\ get(fnGrid, q[1], q[2]) = kMaxAge
          /\ LiveNeighbours(fnGrid, q[1], q[2]) >= 4
          /\ get(fnResult, q[1], q[2]) = 0
    /\ \E q \in Cells(fnGrid) :
          /\ get(fnGrid, q[1], q[2]) > 1
          /\ LiveNeighbours(fnGrid, q[1], q[2]) = 1
          /\ get(fnResult, q[1], q[2]) = 0

\* C2: a dead cell has age 1 in the next generation if it has exactly 3 live
\* neighbours and age 0 for every other count; with exactly 2 it stays dead.
C2_DeadCell ==
    Generated =>
        \A q \in Cells(fnGrid) :
            get(fnGrid, q[1], q[2]) = 0 =>
                get(fnResult, q[1], q[2]) =
                    (IF LiveNeighbours(fnGrid, q[1], q[2]) = 3 THEN 1 ELSE 0)

C2_Witness ==
    /\ Generated
    /\ \E q \in Cells(fnGrid) :
          /\ get(fnGrid, q[1], q[2]) = 0
          /\ LiveNeighbours(fnGrid, q[1], q[2]) = 2
          /\ get(fnResult, q[1], q[2]) = 0
    /\ \E q \in Cells(fnGrid) :
          /\ get(fnGrid, q[1], q[2]) = 0
          /\ LiveNeighbours(fnGrid, q[1], q[2]) = 3
          /\ get(fnResult, q[1], q[2]) = 1

\* C3: a live cell of age a with exactly 2 or 3 live neighbours has age a + 1
\* in the next generation when a < kMaxAge and keeps kMaxAge when a = kMaxAge.
C3_SurvivorAges ==
    Generated =>
        \A q \in Cells(fnGrid) :
            LET a == get(fnGrid, q[1], q[2])
                n == LiveNeighbours(fnGrid, q[1], q[2])
            IN  (a >= 1 /\ n \in {2, 3}) =>
                    /\ get(fnResult, q[1], q[2]) = (IF a < kMaxAge THEN a + 1 ELSE kMaxAge)
                    /\ get(fnResult, q[1], q[2]) \in 1 .. kMaxAge

C3_Witness ==
    /\ Generated
    /\ \E q \in Cells(fnGrid) :
          /\ get(fnGrid, q[1], q[2]) = kMaxAge
          /\ LiveNeighbours(fnGrid, q[1], q[2]) \in {2, 3}
          /\ get(fnResult, q[1], q[2]) = kMaxAge
    /\ \E q \in Cells(fnGrid) :
          /\ get(fnGrid, q[1], q[2]) \in 1 .. kMaxAge - 1
          /\ LiveNeighbours(fnGrid, q[1], q[2]) \in {2, 3}
          /\ get(fnResult, q[1], q[2]) = get(fnGrid, q[1], q[2]) + 1

IsCorner(grid, r, c) ==
    r \in {0, grid.numRows - 1} /\ c \in {0, grid.numCols - 1}

IsEdge(grid, r, c) ==
    r \in {0, grid.numRows - 1} \/ c \in {0, grid.numCols - 1}

\* C4: countNeighborCell(grid, r, c) is the number of live cells among the
\* in-bounds positions around (r, c), the cell itself excluded and nothing
\* wrapped to the opposite edge: at most 3 for a corner, at most 5 for an edge.
C4_NeighbourCount ==
    fnCalled = "countNeighborCell" =>
        \A q \in Cells(fnGrid) :
            /\ get(fnResult, q[1], q[2]) = LiveNeighbours(fnGrid, q[1], q[2])
            /\ IsCorner(fnGrid, q[1], q[2]) => get(fnResult, q[1], q[2]) <= 3
            /\ IsEdge(fnGrid, q[1], q[2]) => get(fnResult, q[1], q[2]) <= 5

C4_Witness ==
    /\ fnCalled = "countNeighborCell"
    /\ fnGrid.numRows = 3 /\ fnGrid.numCols = 3
    /\ \A q \in Cells(fnGrid) : get(fnGrid, q[1], q[2]) > 0
    /\ get(fnResult, 0, 0) = 3
    /\ get(fnResult, 0, 1) = 5
    /\ get(fnResult, 1, 1) = 8

\* C5: isStableGrid(oldGrid, newGrid) is true exactly when every live cell of
\* newGrid has age kMaxAge and newGrid is cell-wise identical to oldGrid.
C5_StableIff ==
    fnCalled = "isStableGrid" =>
        (fnResult = TRUE <=>
            /\ \A q \in Cells(fnOther) :
                  get(fnOther, q[1], q[2]) > 0 => get(fnOther, q[1], q[2]) = kMaxAge
            /\ fnGrid.numRows = fnOther.numRows
            /\ fnGrid.numCols = fnOther.numCols
            /\ \A q \in Cells(fnOther) :
                  get(fnGrid, q[1], q[2]) = get(fnOther, q[1], q[2]))

C5_Witness ==
    /\ fnCalled = "isStableGrid"
    /\ fnResult = TRUE
    /\ \E q \in Cells(fnOther) : get(fnOther, q[1], q[2]) = kMaxAge
    /\ \E q \in Cells(fnOther) : get(fnOther, q[1], q[2]) = 0

\* The rules of section 4.1: the next age of a cell of age a with n live
\* neighbours.
RuleOf(a, n) ==
    IF n <= 1 \/ n >= 4 THEN 0
    ELSE IF n = 2 /\ a = 0 THEN 0
    ELSE IF a < kMaxAge THEN a + 1 ELSE kMaxAge

\* C11: generateNextGenerationGrid leaves its input grid as it was, and each
\* cell of the grid returned is given by the input age of the cell and the
\* input ages of its in-bounds neighbours, in whatever order cells are visited.
C11_InputUntouched ==
    fnCalled = "generateLoop" =>
        /\ fnResult.forward.grid = fnGrid
        /\ fnResult.backward.grid = fnGrid
        /\ fnResult.forward.newGrid = fnResult.backward.newGrid
        /\ fnResult.forward.newGrid = generateNextGenerationGrid(fnGrid)
        /\ \A q \in Cells(fnGrid) :
              get(fnResult.forward.newGrid, q[1], q[2]) =
                  RuleOf(get(fnGrid, q[1], q[2]), LiveNeighbours(fnGrid, q[1], q[2]))

\* A cell visited early dies while a neighbour visited later survives on a
\* count that includes it.
C11_Witness ==
    /\ fnCalled = "generateLoop"
    /\ \E p \in Cells(fnGrid) : \E q \in MooreNeighbours(fnGrid, p[1], p[2]) :
          /\ get(fnGrid, p[1], p[2]) > 0
          /\ get(fnResult.forward.newGrid, p[1], p[2]) = 0
          /\ get(fnGrid, q[1], q[2]) > 0
          /\ LiveNeighbours(fnGrid, q[1], q[2]) = 2
          /\ get(fnResult.forward.newGrid, q[1], q[2]) > 0
          /\ p[1] * fnGrid.numCols + p[2] < q[1] * fnGrid.numCols + q[2]

\* C12: the grid generateNextGenerationGrid returns has as many rows and as
\* many columns as its input, and one cell for each cell of the input.
C12_SameDimensions ==
    Generated =>
        /\ fnResult.numRows = fnGrid.numRows
        /\ fnResult.numCols = fnGrid.numCols
        /\ Len(fnResult.cells) = fnGrid.numRows * fnGrid.numCols
        /\ Cells(fnResult) = Cells(fnGrid)

\* A grid that is not square, with a cell that changes.
C12_Witness ==
    /\ Generated
    /\ fnGrid.numRows # fnGrid.numCols
    /\ fnGrid.numRows > 1
    /\ fnGrid.numCols > 1
    /\ fnResult.cells # fnGrid.cells

\* C13: when a step is reported terminal, a further step returns the grid
\* that step returned: generating from it again reproduces it.
C13_FixedPoint ==
    [][(fnCalled = "advanceGrid" /\ fnResult.terminal) => fnGrid' = fnGrid]_vars

\* A step has been taken after a step reported terminal, on a grid that has
\* live cells and is not the grid the run started from.
C13_Witness ==
    /\ fnCalled = "advanceGrid"
    /\ fnResult.wasTerminal
    /\ SomeAlive(fnGrid)
    /\ fnGrid # fnOther

\* The 3x3 grid with a horizontal live triple of age 1 in row 1.
Blinker == MakeGrid(<<3, 3>>, [i \in 1 .. 9 |-> IF i \in 4 .. 6 THEN 1 ELSE 0])

\* C14: from the blinker, one step gives a vertical live triple in column 1,
\* two steps give a horizontal live triple in row 1 with other ages, and no
\* step of the run is reported terminal.
C14_Blinker ==
    (fnCalled = "advanceGrid" /\ fnOther = Blinker) =>
        /\ fnResult.steps = 1 =>
              \A q \in Cells(fnGrid) : (get(fnGrid, q[1], q[2]) > 0) <=> (q[2] = 1)
        /\ fnResult.steps = 2 =>
              /\ \A q \in Cells(fnGrid) :
                    (get(fnGrid, q[1], q[2]) > 0) <=> (q[1] = 1)
              /\ fnGrid # Blinker
        /\ ~fnResult.terminal

\* The blinker after its second step, its centre older than its ends.
C14_Witness ==
    /\ fnCalled = "advanceGrid"
    /\ fnOther = Blinker
    /\ fnResult.steps = 2
    /\ get(fnGrid, 1, 1) > get(fnGrid, 1, 0)
    /\ get(fnGrid, 1, 0) > 0

\* The only live cell of the grid has age 1.
LoneCell(grid) ==
    \E i \in DOMAIN grid.cells :
        /\ grid.cells[i] = 1
        /\ \A j \in DOMAIN grid.cells : j # i => grid.cells[j] = 0

\* C15: from a grid whose only live cell has age 1, the first step gives a
\* grid with no live cell and is not reported terminal, and the second step
\* is reported terminal.
C15_LoneCell ==
    (fnCalled = "advanceGrid" /\ LoneCell(fnOther)) =>
        /\ fnResult.steps = 1 => AllDead(fnGrid) /\ ~fnResult.terminal
        /\ fnResult.steps = 2 => AllDead(fnGrid) /\ fnResult.terminal

\* The second step from a lone cell inside a grid of several rows and columns.
C15_Witness ==
    /\ fnCalled = "advanceGrid"
    /\ LoneCell(fnOther)
    /\ fnOther.numRows > 1
    /\ fnOther.numCols > 1
    /\ fnResult.steps = 2
    /\ fnResult.terminal
    /\ ~fnResult.wasTerminal

\* C16: from a grid of any dimensions with no live cell, the first step gives
\* a grid with no live cell and is reported terminal.
C16_AllDead ==
    (fnCalled = "advanceGrid" /\ AllDead(fnOther) /\ fnResult.steps = 1) =>
        /\ AllDead(fnGrid)
        /\ fnGrid = fnOther
        /\ fnResult.terminal

\* The first step from a dead grid that is not square.
C16_Witness ==
    /\ fnCalled = "advanceGrid"
    /\ AllDead(fnOther)
    /\ fnOther.numRows > fnOther.numCols
    /\ fnOther.numCols > 1
    /\ fnResult.steps = 1
    /\ fnResult.terminal

(***************************************************************************)
(* The control loops.                                                      *)
(***************************************************************************)
\* A step in which advanceGrid is called: a timer event in the timed loop, or
\* an empty line in the manual loop.
AdvanceStep ==
    \/ pc = "timed" /\ ev' = "TIMER"
    \/ pc = "manual" /\ line' = ""

\* C6: one call of advanceGrid on grid g replaces the controller's grid by
\* nextGeneration(g), also when the step is terminal, and returns
\* NOT isTerminal(g, nextGeneration(g)), g being the grid before the step.
C6_AdvanceContract ==
    [][AdvanceStep =>
        LET newGrid == generateNextGenerationGrid(currGrid)
        IN  /\ currGrid' = newGrid
            /\ canAdvance' = ~isStableGrid(currGrid, newGrid)]_vars

C6_Witness ==
    /\ pc = "stopped"
    /\ canAdvance = FALSE
    /\ SomeAlive(currGrid)
    /\ currGrid = generateNextGenerationGrid(currGrid)

\* C7: in timed mode every timer tick advances the grid by one generation; the
\* loop stops on a tick exactly when that step is terminal, and it leaves the
\* timed state only by such a tick or by a mouse press.
C7_TimedLoop ==
    [][pc = "timed" =>
        LET newGrid == generateNextGenerationGrid(currGrid)
            terminal == isStableGrid(currGrid, newGrid)
        IN  /\ ev' = "TIMER" =>
                 /\ currGrid' = newGrid
                 /\ pc' = (IF terminal THEN "stopped" ELSE "timed")
            /\ pc' # "timed" =>
                 /\ pc' = "stopped"
                 /\ ev' = "MOUSE_PRESSED" \/ (ev' = "TIMER" /\ terminal)]_vars

C7_Witness ==
    /\ pc = "stopped"
    /\ ev = "TIMER"
    /\ canAdvance = FALSE
    /\ timer = NoTimer

\* C8: in timed mode a mouse press stops the loop at once, with the grid and
\* the display as they were and the timer stopped; a timer event is handled
\* only inside the loop, and a stopped run is followed by the screen clear alone.
C8_MouseStop ==
    [][/\ (pc = "timed" /\ ev' = "MOUSE_PRESSED") =>
            /\ pc' = "stopped"
            /\ currGrid' = currGrid
            /\ display' = display
            /\ ~timer'.running
       /\ ev' = "TIMER" => pc = "timed"
       /\ pc = "stopped" =>
            /\ ~timer.running
            /\ pc' = "post"
            /\ AllDead(currGrid')]_vars

C8_Witness ==
    /\ pc = "stopped"
    /\ ev = "MOUSE_PRESSED"
    /\ ~timer.running
    /\ \E i \in DOMAIN currGrid.cells : currGrid.cells[i] \in 1 .. kMaxAge - 1
    /\ currGrid # generateNextGenerationGrid(currGrid)

\* C9: in manual mode an empty line advances the grid by one generation and
\* stops the loop exactly when that step is terminal; 'quit' stops the loop
\* at once with the grid and the display unchanged.
C9_ManualLoop ==
    [][pc = "manual" =>
        LET newGrid == generateNextGenerationGrid(currGrid)
            terminal == isStableGrid(currGrid, newGrid)
        IN  /\ line' = "" =>
                 /\ currGrid' = newGrid
                 /\ pc' = (IF terminal THEN "stopped" ELSE "manual")
            /\ line' = "quit" =>
                 /\ pc' = "stopped"
                 /\ currGrid' = currGrid
                 /\ display' = display]_vars

C9_Witness ==
    /\ pc = "stopped"
    /\ line = "quit"
    /\ SomeAlive(currGrid)
    /\ currGrid # generateNextGenerationGrid(currGrid)

\* C10: in every reachable state every cell of the controller's grid has an
\* age in 0 .. kMaxAge.
C10_AgesInRange ==
    \A i \in DOMAIN currGrid.cells : currGrid.cells[i] \in 0 .. kMaxAge

C10_Witness ==
    /\ pc \in {"timed", "manual"}
    /\ canAdvance
    /\ \E i \in DOMAIN currGrid.cells : currGrid.cells[i] = kMaxAge
    /\ \E i \in DOMAIN currGrid.cells : currGrid.cells[i] = 0
    /\ currGrid = generateNextGenerationGrid(currGrid)
\* The display shows the grid: its dimensions are the grid's, and the window
\* holds the age of every cell.
Rendered(disp, grid) ==
    /\ ~disp.failed
    /\ disp.numRows = grid.numRows
    /\ disp.numColumns = grid.numCols
    /\ disp.window = grid.cells

\* C17: once a run has stopped no generation is advanced before a new session
\* is initialised: the stopped grid is only cleared; at the prompt an empty
\* line leads to loading or generating a fresh grid, which is declared to the
\* display and rendered before the mode prompt, the only way back to a
\* running loop; "quit" ends the program.
C17_StoppedUntilNewSession ==
    [][/\ pc = "stopped" =>
             /\ pc' = "post"
             /\ AllDead(currGrid')
             /\ Cells(currGrid') = Cells(currGrid)
       /\ pc = "post" =>
             /\ currGrid' = currGrid
             /\ display' = display
             /\ line' = "" => pc' = "fileName"
             /\ line' = "quit" => pc' = "exited"
             /\ pc' \in {"fileName", "exited"}
       /\ pc = "fileName" =>
             \/ pc' = "mode" /\ Rendered(display', currGrid')
             \/ pc' = "exited" /\ currGrid' = currGrid /\ display' = display
       /\ pc' = "mode" => pc = "fileName"
       /\ pc' = "speed" => pc = "mode"
       /\ pc' \in {"timed", "manual"} => pc \in {"mode", "speed", "timed", "manual"}
      ]_vars

\* After a run that was stopped and cleared, the empty line has been read at
\* the prompt and the program waits for the source of the new grid.
C17_Witness ==
    /\ pc = "fileName"
    /\ line = ""
    /\ currGrid.numRows > 0
    /\ currGrid.numRows # currGrid.numCols
    /\ AllDead(currGrid)
    /\ Rendered(display, currGrid)

\* C18: a line that is no command ends the program at once: at the manual
\* prompt and at the post-session prompt a line other than the empty line and
\* "quit", at the speed prompt a line other than "1", "2" and "3"; the grid is
\* not advanced, and nothing is read or done after the program has ended.
C18_InvalidCommandExits ==
    [][/\ ( \/ pc \in {"manual", "post"} /\ line' \notin {"", "quit"}
            \/ pc = "speed" /\ line' \notin {"1", "2", "3"} ) =>
             /\ pc' = "exited"
             /\ currGrid' = currGrid
             /\ display' = display
       /\ pc # "exited"
      ]_vars

\* The program has ended on an unknown line at the manual prompt, the grid
\* still holding live cells.
C18_Witness ==
    /\ pc = "exited"
    /\ line = "manual"
    /\ SomeAlive(currGrid)
    /\ Rendered(display, currGrid)

\* C19: the grid keeps its number of rows and of columns in every step of a
\* run, timed or manual, and in the screen clear that ends it; they change
\* only in the step in which the grid of a new session replaces it.
C19_DimensionsFixed ==
    [][pc # "fileName" =>
          /\ currGrid'.numRows = currGrid.numRows
          /\ currGrid'.numCols = currGrid.numCols
          /\ Len(currGrid'.cells) = Len(currGrid.cells)
      ]_vars

\* A grid that is not square after its run has ended and the screen has been
\* cleared.
C19_Witness ==
    /\ pc = "post"
    /\ currGrid.numRows > 1
    /\ currGrid.numCols > currGrid.numRows
    /\ AllDead(currGrid)

\* C20: no drawCellAt is issued outside the dimensions last declared with
\* setDimensions, and the dimensions declared are those of the grid drawn,
\* also for the grid of a later session whose dimensions differ.
C20_DrawInBounds ==
    /\ ~display.failed
    /\ display.numRows = currGrid.numRows
    /\ display.numColumns = currGrid.numCols
    /\ Len(display.ages) = currGrid.numRows * currGrid.numCols
    /\ pc \notin {"welcome", "fileName"} => display.window = currGrid.cells

\* A grid that is not square, advanced and drawn with live cells in its last
\* row and column.
C20_Witness ==
    /\ \/ pc = "timed" /\ ev = "TIMER"
       \/ pc = "manual" /\ line = ""
    /\ currGrid.numRows > 1
    /\ currGrid.numCols > currGrid.numRows
    /\ get(currGrid, currGrid.numRows - 1, currGrid.numCols - 1) > 0
    /\ display.window = currGrid.cells
    /\ display.board = currGrid.cells

\* C21: whenever a loop waits for the next event or line, and when it has
\* just stopped, also on a step reported terminal, the display holds the age
\* of every cell of the controller's grid, in the ages drawn, in the text
\* dumped and in the window repainted.
C21_DisplayShowsGeneration ==
    pc \in {"timed", "manual", "stopped"} =>
        /\ display.ages = currGrid.cells
        /\ display.board = currGrid.cells
        /\ display.window = currGrid.cells

\* The timed loop has stopped on a step reported terminal, the grid and the
\* display holding live cells.
C21_Witness ==
    /\ pc = "stopped"
    /\ ev = "TIMER"
    /\ ~canAdvance
    /\ SomeAlive(currGrid)
    /\ currGrid.numRows > 1
    /\ currGrid.numCols > 1
    /\ display.window = currGrid.cells
    /\ display.board = currGrid.cells

\* A cell of the grid is alive and below kMaxAge.
SomeAgeing(grid) ==
    \E i \in DOMAIN grid.cells : grid.cells[i] > 0 /\ grid.cells[i] < kMaxAge

\* C22: for two grids of the same dimensions with ages in 0 .. kMaxAge, the
\* isStableGrid that tests the ages of the old grid and the isStableGrid that
\* tests the ages of the new grid return the same value.
C22_RevisionsAgree ==
    fnCalled = "isStableGrid revisions" => fnResult.lifeCpp = fnResult.final

\* Two grids on which the age tests of the two revisions differ: the old grid
\* has a cell still ageing, the new grid has none.
C22_Witness ==
    /\ fnCalled = "isStableGrid revisions"
    /\ SomeAgeing(fnGrid)
    /\ ~SomeAgeing(fnOther)
    /\ SomeAlive(fnOther)
    /\ Cells(fnGrid) = Cells(fnOther)
    /\ fnResult.final = FALSE

\* C23: when the grid generated is cell-wise the grid it was generated from,
\* every live cell of that grid has age kMaxAge; so a step is reported
\* terminal exactly when it returns the grid it was given, and at a terminal
\* report every cell is 0 or kMaxAge.
C23_TerminalIffFixedPoint ==
    [][fnCalled' = "advanceGrid" =>
          /\ fnGrid' = fnGrid => ~SomeAgeing(fnGrid)
          /\ fnResult'.terminal <=> fnGrid' = fnGrid
          /\ fnResult'.terminal =>
                \A i \in DOMAIN fnGrid'.cells : fnGrid'.cells[i] \in {0, kMaxAge}
      ]_vars

\* The first terminal report of a run that started with younger cells: the
\* grid holds live cells, all of age kMaxAge.
C23_Witness ==
    /\ fnCalled = "advanceGrid"
    /\ fnResult.terminal
    /\ ~fnResult.wasTerminal
    /\ SomeAlive(fnGrid)
    /\ SomeAgeing(fnOther)
    /\ fnResult.steps = MaxSteps

\* Every live cell of the grid has age 1.
AllLiveAgeOne(grid) == \A i \in DOMAIN grid.cells : grid.cells[i] \in {0, 1}

\* C24 as stated, for the step on which the loop stops: from a grid whose
\* pattern is a still life the timed loop stops after at most kMaxAge steps,
\* and from a still life whose live cells all have age 1 it stops on the
\* kMaxAge-th step and on no earlier one.
C24_AsStated ==
    (pc = "stopped" /\ fnCalled = "runAnimation" /\ StillLife(fnOther)) =>
        /\ fnResult <= kMaxAge
        /\ AllLiveAgeOne(fnOther) => fnResult = kMaxAge

\* C24, amended: from a grid whose pattern is a still life the timed loop,
\* with timer events kept coming and no mouse press, stops, after at most
\* kMaxAge steps; and from a still life that has live cells, all of age 1,
\* it has then taken exactly kMaxAge steps.
C24_StillLifeStops ==
    (pc = "timed" /\ StillLife(fnOther)) ~>
        /\ pc = "stopped"
        /\ fnResult <= kMaxAge
        /\ (AllLiveAgeOne(fnOther) /\ SomeAlive(fnOther)) => fnResult = kMaxAge

\* The timed loop has stopped on the kMaxAge-th timer event of a run that
\* started from a still life of age 1 in a grid of three rows or more.
C24_Witness ==
    /\ pc = "stopped"
    /\ fnCalled = "runAnimation"
    /\ StillLife(fnOther)
    /\ AllLiveAgeOne(fnOther)
    /\ SomeAlive(fnOther)
    /\ fnOther.numRows > 2
    /\ fnResult = kMaxAge
    /\ ~SomeAgeing(currGrid)

====
